---- MODULE Spec2Model ----
(***************************************************************************)
(* Progress / badge / raffle-eligibility engine of the teensha backend.    *)
(*                                                                         *)
(* The database tables are the state.  Tables that the code addresses      *)
(* through a compound unique key (teenId_challengeId, teenId_badgeId,      *)
(* teenId_year, reference) are partial functions from that key to the      *)
(* row; the submission and task tables are sets of rows.                   *)
(*                                                                         *)
(* Spec     : every request handler runs to completion before the next     *)
(*            one starts (one action per handler).                         *)
(* SpecConc : two requests run concurrently, one action per awaited        *)
(*            database call.                                               *)
(***************************************************************************)
EXTENDS Integers, FiniteSets, Sequences, TLC

\* ------------------------------------------------------------------ bounds
MaxTasks == 2      \* task ids that createTask may hand out in a challenge
MaxClock == 2      \* distinct values of new Date() that get stored
MaxCalls == 3      \* SpecRecompute: calls of updateTeenProgressHelper in a row
MaxScore == 2      \* task.maxScore of every task

\* --------------------------------------------------------- fixed universe
Teens == {"t1", "t2"}
ActiveTeens == {"t1"}                 \* teens whose requests are enumerated

\* one challenge per (year, month); badge b belongs to challenge b
ChallengeIds == 1..13
LiveChallenges == {1}                 \* challenges whose task and submission requests are enumerated
YearOf(c) == IF c <= 12 THEN 2025 ELSE 2026
Years == {YearOf(c) : c \in ChallengeIds}
BadgeIds == ChallengeIds
ChallengeOfBadge(b) == b
LiveBadges == {b \in BadgeIds : ChallengeOfBadge(b) \in LiveChallenges}  \* bought through the gateway or directly
DirectBadges == {12}                  \* bought directly (purchaseBadge) only

\* a task of another challenge, never created or deleted by the enumerated requests
SeedTask == [id |-> 100, challengeId |-> 2]
LiveTaskIds == 1..MaxTasks
Refs == {"ref_1"}                   \* references the payment gateway hands out
Dates == 1..MaxClock

SubmissionStatus == {"PENDING", "APPROVED", "REJECTED"}
BadgeStatus == {"AVAILABLE", "PURCHASED", "EARNED"}
\* the status values a reviewer sends in the enumerated requests ("BOGUS": not a status)
ReviewInputs == {"APPROVED", "REJECTED", "BOGUS"}

VARIABLES
  task,          \* set of [id, challengeId]
  submission,    \* set of [taskId, teenId, status, score]
  teenProgress,  \* <<teenId, challengeId>> -> [tasksTotal, tasksCompleted, percentage, completedAt]
  teenBadge,     \* <<teenId, badgeId>> -> [status]
  raffleEntry,   \* <<teenId, year>> -> [isEligible]
  transaction,   \* reference -> [status]
  gateway,       \* the payment gateway's transactions: reference -> [teenId, badgeId, status]
  last,          \* the request that completed last: its HTTP status and the helpers it called
  pc,            \* SpecConc: position of each in-flight request
  local,         \* SpecConc: local variables of each in-flight request
  monthlyChallenge,  \* challengeId -> [isPublished, isActive]
  badge,         \* ids of the challenges that have a Badge row (one badge per challenge)
  returned,      \* SpecRecompute: what the calls of updateTeenProgressHelper returned and wrote
  challengeRows, \* SpecCreate: the MonthlyChallenge rows as [id, ym, badge], ids handed out by the database
  raffleDraw,    \* SpecRaffle: the RaffleDraw rows as [year, winnerId]
  sent,          \* SpecNotify, SpecInline: the responses the last handler tried to send, in order
  call           \* the specifications of pure functions: the arguments and the result of one call

\* the tables and logs that the submission and purchase handlers never write
other == <<monthlyChallenge, badge, returned, challengeRows, raffleDraw, sent, call>>

vars == <<task, submission, teenProgress, teenBadge, raffleEntry, transaction,
          gateway, last, pc, local, other>>

db == <<task, submission, teenProgress, teenBadge, raffleEntry, transaction>>

\* ------------------------------------------------------------ ORM helpers
\* a score is <<n>>; <<>> stands for null in the table and for undefined in a request
NoScore == <<>>

SubmissionRow(taskId, teenId, status, score) ==
  [taskId |-> taskId, teenId |-> teenId, status |-> status, score |-> score]

\* alternative: a rewritten submission starts again without a score
ScoreOfAlt(sub, taskId, teenId) == NoScore

\* the score of the (task, teen) submission in sub, null when there is no such row
ScoreOf(sub, taskId, teenId) ==
  IF \E s \in sub : s.taskId = taskId /\ s.teenId = teenId
    THEN (CHOOSE s \in sub : s.taskId = taskId /\ s.teenId = teenId).score
    ELSE NoScore

\* prisma.<model>.upsert on a table addressed by a unique key
Upsert(tbl, key, row) ==
  [k \in (DOMAIN tbl) \cup {key} |-> IF k = key THEN row ELSE tbl[k]]

\* prisma.task.findMany({ where: { challengeId } }).length
CountTasks(tk, challengeId) ==
  Cardinality({x \in tk : x.challengeId = challengeId})

\* a count that ignores the submission status
CountApprovedAlt(sub, tk, teenId, challengeId) ==
  Cardinality({s \in sub :
      /\ s.teenId = teenId
      /\ \E x \in tk : x.id = s.taskId /\ x.challengeId = challengeId})

\* prisma.submission.count({ where: { teenId, status: 'APPROVED', task: { challengeId } } })
CountApproved(sub, tk, teenId, challengeId) ==
  Cardinality({s \in sub :
      /\ s.teenId = teenId
      /\ s.status = "APPROVED"
      /\ \E x \in tk : x.id = s.taskId /\ x.challengeId = challengeId})

\* Math.round((completed / total) * 100), 0 when total is 0
calculateProgress(completed, total) ==
  IF total = 0 THEN 0 ELSE (200 * completed + total) \div (2 * total)

\* a row that is stamped with the date whatever the percentage
ProgressRowAlt(completed, total, date) ==
  [tasksTotal |-> total, tasksCompleted |-> completed,
   percentage |-> calculateProgress(completed, total),
   completedAt |-> date]

\* the row written by updateTeenProgressHelper; completedAt 0 stands for null
ProgressRow(completed, total, date) ==
  LET percentage == calculateProgress(completed, total)
      isCompleted == percentage = 100
  IN [tasksTotal |-> total, tasksCompleted |-> completed,
      percentage |-> percentage,
      completedAt |-> IF isCompleted THEN date ELSE 0]

\* a recomputation that adds the count to the stored one instead of replacing it
updateTeenProgressHelperAlt(prog, sub, tk, teenId, challengeId, date) ==
  LET key == <<teenId, challengeId>>
      before == IF key \in DOMAIN prog THEN prog[key].tasksCompleted ELSE 0
  IN Upsert(prog, key,
            ProgressRow(before + CountApproved(sub, tk, teenId, challengeId),
                        CountTasks(tk, challengeId), date))

\* updateTeenProgressHelper run without interruption on the tables tk, sub, prog
updateTeenProgressHelper(prog, sub, tk, teenId, challengeId, date) ==
  Upsert(prog, <<teenId, challengeId>>,
         ProgressRow(CountApproved(sub, tk, teenId, challengeId),
                     CountTasks(tk, challengeId), date))

\* return { totalTasks, completedSubmissions, percentage, isCompleted }
HelperResult(sub, tk, teenId, challengeId) ==
  LET totalTasks == CountTasks(tk, challengeId)
      completedSubmissions == CountApproved(sub, tk, teenId, challengeId)
      percentage == calculateProgress(completedSubmissions, totalTasks)
  IN [totalTasks |-> totalTasks, completedSubmissions |-> completedSubmissions,
      percentage |-> percentage, isCompleted |-> (percentage = 100)]

\* prisma.teenBadge.count({ where: { teenId, status in [PURCHASED, EARNED], badge.challenge.year } })
CountPurchased(tb, teenId, year) ==
  Cardinality({k \in DOMAIN tb :
      /\ k[1] = teenId
      /\ tb[k].status \in {"PURCHASED", "EARNED"}
      /\ YearOf(ChallengeOfBadge(k[2])) = year})

\* a threshold of eleven or more
IsEligibleAlt(purchasedBadges) == purchasedBadges >= 11

\* const isEligible = purchasedBadges === 12
IsEligible(purchasedBadges) == purchasedBadges = 12

\* updateRaffleEligibilityHelper run without interruption on the table tb
updateRaffleEligibilityHelper(raffle, tb, teenId, year) ==
  Upsert(raffle, <<teenId, year>>,
         [isEligible |-> IsEligible(CountPurchased(tb, teenId, year))])

\* an evaluation that grants EARNED from half-way on
PurchaseThenEvaluateAlt(tb, prog, teenId, badgeId, challengeId) ==
  LET upserted == Upsert(tb, <<teenId, badgeId>>, [status |-> "PURCHASED"])
      key == <<teenId, challengeId>>
  IN IF key \in DOMAIN prog /\ prog[key].percentage >= 50
       THEN Upsert(upserted, <<teenId, badgeId>>, [status |-> "EARNED"])
       ELSE upserted

\* the teenBadge table after "upsert PURCHASED, then EARNED when progress is 100"
\* (verifyBadgePurchase, purchaseBadge and handleSuccessfulCharge share these lines)
PurchaseThenEvaluate(tb, prog, teenId, badgeId, challengeId) ==
  LET upserted == Upsert(tb, <<teenId, badgeId>>, [status |-> "PURCHASED"])
      key == <<teenId, challengeId>>
  IN IF key \in DOMAIN prog /\ prog[key].percentage = 100
       THEN Upsert(upserted, <<teenId, badgeId>>, [status |-> "EARNED"])
       ELSE upserted


\* what a finished request leaves in "last": the status of res.status(...).json(...) and
\* the arguments of its calls of updateTeenProgressHelper and updateRaffleEligibilityHelper
Answer(code, progressCalls, raffleCalls) ==
  [code |-> code, progressCalls |-> progressCalls, raffleCalls |-> raffleCalls,
   badgeWrites |-> <<>>]

\* the statuses a purchase writes to the teen's badge row, in order: the upsert to
\* PURCHASED, then the update to EARNED under "progress && progress.percentage === 100"
BadgeWrites(prog, teenId, badgeId, challengeId) ==
  LET key == <<teenId, challengeId>>
  IN IF key \in DOMAIN prog /\ prog[key].percentage = 100
       THEN <<(<<teenId, badgeId, "PURCHASED">>), (<<teenId, badgeId, "EARNED">>)>>
       ELSE <<(<<teenId, badgeId, "PURCHASED">>)>>

\* what a finished purchase leaves in "last"
AnswerPurchase(prog, teenId, badgeId, challengeId) ==
  [Answer(200, {}, {<<teenId, YearOf(challengeId)>>})
     EXCEPT !.badgeWrites = BadgeWrites(prog, teenId, badgeId, challengeId)]

\* ------------------------------------------------------------------- Init
SeedTeenBadge ==
  [k \in ({"t1"} \X (BadgeIds \ (LiveBadges \cup DirectBadges))) \cup ({"t2"} \X LiveBadges)
     |-> [status |-> "PURCHASED"]]

InitDb ==
  /\ task = {SeedTask}
  /\ submission = {SubmissionRow(SeedTask.id, t, "APPROVED", NoScore) : t \in Teens}
  /\ teenProgress = [k \in Teens \X {SeedTask.challengeId} |-> ProgressRow(1, 1, 1)]
  /\ teenBadge = SeedTeenBadge
  /\ raffleEntry = [k \in ({"t1"} \X Years) \cup {<<"t2", 2025>>} |-> [isEligible |-> FALSE]]
  /\ transaction = <<>>
  /\ gateway = <<>>

\* the tables that only the specifications of single handlers use
InitExtra ==
  /\ challengeRows = {}
  /\ raffleDraw = {}
  /\ sent = <<>>
  /\ call = <<>>

\* every challenge of the universe exists, published and active, with its badge
InitCatalog ==
  /\ monthlyChallenge = [c \in ChallengeIds |-> [isPublished |-> TRUE, isActive |-> TRUE]]
  /\ badge = BadgeIds

Init ==
  /\ InitDb
  /\ InitCatalog
  /\ returned = <<>>
  /\ InitExtra
  /\ last = Answer(0, {}, {})
  /\ pc = <<>>
  /\ local = <<>>

\* --------------------------------------------------------------- handlers
\* new Date(): a value not earlier than any timestamp already stored
LatestDate(prog) ==
  IF \A k \in DOMAIN prog : \A d \in Dates : prog[k].completedAt < d
    THEN 0
    ELSE CHOOSE d \in Dates :
           /\ \E k \in DOMAIN prog : prog[k].completedAt = d
           /\ \A k \in DOMAIN prog : prog[k].completedAt <= d

NewDate(prog) == {d \in Dates : d >= LatestDate(prog)}

\* taskController.js createTask
createTask(challengeId) ==
  /\ \E id \in LiveTaskIds :
       /\ \A x \in task : x.id # id
       /\ task' = task \cup {[id |-> id, challengeId |-> challengeId]}
  /\ last' = Answer(201, {}, {})
  /\ UNCHANGED <<submission, teenProgress, teenBadge, raffleEntry, transaction,
                 gateway, pc, local, other>>

\* taskController.js deleteTask; the submissions of the task go with it
deleteTask(taskId) ==
  /\ \E x \in task :
       /\ x.id = taskId
       /\ task' = task \ {x}
       /\ last' = Answer(200, {}, {})
  /\ submission' = {s \in submission : s.taskId # taskId}
  /\ UNCHANGED <<teenProgress, teenBadge, raffleEntry, transaction,
                 gateway, pc, local, other>>

\* a check that lets every challenge pass
ChallengeAvailableAlt(mc, challengeId) == TRUE

\* task.challenge.isPublished
ChallengeAvailable(mc, challengeId) == mc[challengeId].isPublished

\* submissionController.js submitTaskResponse
submitTaskResponse(teenId, taskId, contentValid) ==
  /\ UNCHANGED <<teenBadge, raffleEntry, transaction, gateway, pc, local, other>>
  /\ IF \A x \in task : x.id # taskId
       THEN /\ last' = Answer(404, {}, {})
            /\ UNCHANGED <<task, submission, teenProgress>>
       ELSE LET x == CHOOSE y \in task : y.id = taskId
                others == {s \in submission : ~(s.taskId = taskId /\ s.teenId = teenId)}
                existing == others # submission
                sub2 == others \cup {SubmissionRow(taskId, teenId, "APPROVED",
                                                    ScoreOf(submission, taskId, teenId))}
            IN IF ~ChallengeAvailable(monthlyChallenge, x.challengeId)
                 THEN /\ last' = Answer(403, {}, {})
                      /\ UNCHANGED <<task, submission, teenProgress>>
                 ELSE IF ~contentValid
                 THEN /\ last' = Answer(400, {}, {})
                      /\ UNCHANGED <<task, submission, teenProgress>>
                 ELSE /\ submission' = sub2
                      /\ \E date \in NewDate(teenProgress) :
                           teenProgress' = updateTeenProgressHelper(teenProgress, sub2, task,
                                                                    teenId, x.challengeId, date)
                      /\ last' = Answer(IF existing THEN 200 ELSE 201,
                                        {<<teenId, x.challengeId>>}, {})
                      /\ UNCHANGED task

\* score < 0 || score > submission.task.maxScore
ScoreOutOfRange(score) == score[1] < 0 \/ score[1] > MaxScore

NoStatus == "undefined"    \* the body has no status

\* a check that only asks for some status
ValidStatusAlt(status) == status # NoStatus

\* ['APPROVED', 'REJECTED', 'PENDING'].includes(status); isIn([...]) in the validators
ValidStatus(status) == status \in SubmissionStatus

\* submissionController.js reviewSubmission (the version that recomputes progress)
reviewSubmission(s, status, score) ==
  /\ s \in submission
  /\ UNCHANGED <<task, teenBadge, raffleEntry, transaction, gateway, pc, local, other>>
  /\ LET x == CHOOSE y \in task : y.id = s.taskId
         sub2 == (submission \ {s})
                 \cup {[s EXCEPT !.status = status,
                                  !.score = IF score # NoScore THEN score ELSE s.score]}
     IN IF ~ValidStatus(status)
          THEN /\ last' = Answer(400, {}, {})
               /\ UNCHANGED <<submission, teenProgress>>
          ELSE IF score # NoScore /\ ScoreOutOfRange(score)
          THEN /\ last' = Answer(400, {}, {})
               /\ UNCHANGED <<submission, teenProgress>>
          ELSE /\ submission' = sub2
               /\ \E date \in NewDate(teenProgress) :
                    teenProgress' = updateTeenProgressHelper(teenProgress, sub2, task,
                                                             s.teenId, x.challengeId, date)
               /\ last' = Answer(200, {<<s.teenId, x.challengeId>>}, {})

\* submissionController.js reviewSubmission (the earlier version: no recomputation);
\* the route's validators answer 400 for a status that is not of the enum and for a
\* score that is not an integer >= 0
reviewSubmissionV1(s, status, score) ==
  /\ s \in submission
  /\ IF ~ValidStatus(status) \/ (score # NoScore /\ score[1] < 0)
       THEN /\ last' = Answer(400, {}, {})
            /\ submission' = submission
       ELSE /\ last' = Answer(200, {}, {})
            /\ submission' = (submission \ {s})
                 \cup {[s EXCEPT !.status = status,
                                  !.score = IF score # NoScore THEN score ELSE s.score]}
  /\ UNCHANGED <<task, teenProgress, teenBadge, raffleEntry, transaction,
                 gateway, pc, local, other>>

\* a deletion that leaves the Progress row as it was
deleteSubmissionAlt(s) ==
  /\ s \in submission
  /\ LET x == CHOOSE y \in task : y.id = s.taskId
     IN /\ submission' = submission \ {s}
        /\ last' = Answer(200, {<<s.teenId, x.challengeId>>}, {})
  /\ UNCHANGED <<task, teenProgress, teenBadge, raffleEntry, transaction, gateway,
                 pc, local, other>>

\* submissionController.js deleteSubmission
deleteSubmission(s) ==
  /\ s \in submission
  /\ LET x == CHOOSE y \in task : y.id = s.taskId
         sub2 == submission \ {s}
     IN /\ submission' = sub2
        /\ \E date \in NewDate(teenProgress) :
             teenProgress' = updateTeenProgressHelper(teenProgress, sub2, task,
                                                      s.teenId, x.challengeId, date)
        /\ last' = Answer(200, {<<s.teenId, x.challengeId>>}, {})
  /\ UNCHANGED <<task, teenBadge, raffleEntry, transaction, gateway, pc, local, other>>

\* ---------------------------------------------------------- payment gateway
\* the customer pays on the gateway's hosted checkout
GatewayCharge(ref) ==
  /\ ref \in DOMAIN gateway
  /\ gateway[ref].status = "pending"
  /\ gateway' = [gateway EXCEPT ![ref].status = "success"]
  /\ UNCHANGED <<db, last, pc, local, other>>

\* existingBadge && existingBadge.status === 'PURCHASED'
AlreadyPurchased(tb, key) ==
  key \in DOMAIN tb /\ tb[key].status = "PURCHASED"

initializeBadgePurchase(teenId, badgeId) ==
  /\ UNCHANGED <<task, submission, teenProgress, raffleEntry, transaction, pc, local, other>>
  /\ IF badgeId \notin BadgeIds
       THEN /\ last' = Answer(404, {}, {})
            /\ UNCHANGED <<teenBadge, gateway>>
       ELSE IF AlreadyPurchased(teenBadge, <<teenId, badgeId>>)
       THEN /\ last' = Answer(400, {}, {})
            /\ UNCHANGED <<teenBadge, gateway>>
       ELSE /\ \E ref \in Refs \ DOMAIN gateway :
                 gateway' = Upsert(gateway, ref,
                                   [teenId |-> teenId, badgeId |-> badgeId, status |-> "pending"])
            /\ teenBadge' = Upsert(teenBadge, <<teenId, badgeId>>, [status |-> "AVAILABLE"])
            /\ last' = Answer(200, {}, {})

\* badgeController.js verifyBadgePurchase
verifyBadgePurchase(ref) ==
  /\ UNCHANGED <<task, submission, teenProgress, transaction, gateway, pc, local, other>>
  /\ IF ref \notin DOMAIN gateway \/ gateway[ref].status # "success"
       THEN /\ last' = Answer(400, {}, {})
            /\ UNCHANGED <<teenBadge, raffleEntry>>
       ELSE LET teenId == gateway[ref].teenId
                badgeId == gateway[ref].badgeId
                challengeId == ChallengeOfBadge(badgeId)
                tb2 == PurchaseThenEvaluate(teenBadge, teenProgress, teenId, badgeId, challengeId)
            IN /\ teenBadge' = tb2
               /\ raffleEntry' = updateRaffleEligibilityHelper(raffleEntry, tb2, teenId,
                                                               YearOf(challengeId))
               /\ last' = AnswerPurchase(teenProgress, teenId, badgeId, challengeId)

\* purchaseBadge: the purchase without the payment gateway
purchaseBadge(teenId, badgeId) ==
  /\ UNCHANGED <<task, submission, teenProgress, transaction, gateway, pc, local, other>>
  /\ IF badgeId \notin BadgeIds
       THEN /\ last' = Answer(404, {}, {})
            /\ UNCHANGED <<teenBadge, raffleEntry>>
       ELSE IF AlreadyPurchased(teenBadge, <<teenId, badgeId>>)
       THEN /\ last' = Answer(400, {}, {})
            /\ UNCHANGED <<teenBadge, raffleEntry>>
       ELSE LET challengeId == ChallengeOfBadge(badgeId)
                tb2 == PurchaseThenEvaluate(teenBadge, teenProgress, teenId, badgeId, challengeId)
            IN /\ teenBadge' = tb2
               /\ raffleEntry' = updateRaffleEligibilityHelper(raffleEntry, tb2, teenId,
                                                               YearOf(challengeId))
               /\ last' = AnswerPurchase(teenProgress, teenId, badgeId, challengeId)

\* paystackWebhookController.js handleSuccessfulCharge
handleSuccessfulCharge(ref) ==
  /\ ref \in DOMAIN gateway
  /\ gateway[ref].status = "success"
  /\ LET teenId == gateway[ref].teenId
         badgeId == gateway[ref].badgeId
         challengeId == ChallengeOfBadge(badgeId)
         tb2 == PurchaseThenEvaluate(teenBadge, teenProgress, teenId, badgeId, challengeId)
     IN /\ transaction' = Upsert(transaction, ref, [status |-> "SUCCESS"])
        /\ teenBadge' = tb2
        /\ raffleEntry' = updateRaffleEligibilityHelper(raffleEntry, tb2, teenId,
                                                        YearOf(challengeId))
        /\ last' = AnswerPurchase(teenProgress, teenId, badgeId, challengeId)
  /\ UNCHANGED <<task, submission, teenProgress, gateway, pc, local, other>>

\* alternative: the failed charge is written with an upsert on the reference
CreateTransactionAlt(tx, ref, row) == Upsert(tx, ref, row)

\* prisma.transaction.create inside handleFailedCharge's try: the unique key on
\* reference refuses a second row, the catch logs the error, the table is as before
CreateTransaction(tx, ref, row) ==
  IF ref \in DOMAIN tx THEN tx ELSE Upsert(tx, ref, row)

\* paystackWebhookController.js handleFailedCharge; the gateway reports the failure
\* of an attempt on one of its charges, whatever became of the charge since
handleFailedCharge(ref) ==
  /\ ref \in DOMAIN gateway
  /\ transaction' = CreateTransaction(transaction, ref, [status |-> "FAILED"])
  /\ last' = Answer(200, {}, {})
  /\ UNCHANGED <<task, submission, teenProgress, teenBadge, raffleEntry, gateway, pc, local,
                 other>>

\* the webhook's secret, and a key that is not the secret
PAYSTACK_SECRET_KEY == "sk_secret"
Keys == {PAYSTACK_SECRET_KEY, "sk_other"}
WebhookEvents == {"charge.success", "charge.failed", "transfer.success"}
NoSignature == <<>>        \* the header is absent

\* JSON.stringify(req.body): the text of the body's event and data.reference
Stringify(event, ref) == <<event, ref>>

\* HMAC-SHA512 as an ideal MAC: equal digests come from equal keys and equal texts
Hmac(key, text) == <<key, text>>

\* every signature a sender can put in x-paystack-signature
Signatures == {NoSignature} \cup {Hmac(k, Stringify(e, r)) : k \in Keys, e \in WebhookEvents, r \in Refs}

\* a webhook that processes the event whatever the signature
handlePaystackWebhookAlt(ref, event, signature) ==
  IF event = "charge.success"
    THEN handleSuccessfulCharge(ref)
    ELSE IF event = "charge.failed"
    THEN handleFailedCharge(ref)
    ELSE /\ last' = Answer(200, {}, {})
         /\ UNCHANGED <<db, gateway, pc, local, other>>

\* paystackWebhookController.js handlePaystackWebhook; only the gateway holds the
\* secret, so a rightly signed charge.success names a successful charge of the gateway
handlePaystackWebhook(ref, event, signature) ==
  LET hash == Hmac(PAYSTACK_SECRET_KEY, Stringify(event, ref))
  IN IF hash # signature
       THEN /\ last' = Answer(401, {}, {})
            /\ UNCHANGED <<db, gateway, pc, local, other>>
       ELSE IF event = "charge.success"
         THEN handleSuccessfulCharge(ref)
         ELSE IF event = "charge.failed"
         THEN handleFailedCharge(ref)
         ELSE /\ last' = Answer(200, {}, {})
              /\ UNCHANGED <<db, gateway, pc, local, other>>

MissingBadge == {0}

Next ==
  \/ \E r \in Refs : GatewayCharge(r)
  \/ \E t \in ActiveTeens, b \in LiveBadges \cup MissingBadge :
       initializeBadgePurchase(t, b)
  \/ \E t \in ActiveTeens, b \in LiveBadges \cup DirectBadges \cup MissingBadge :
       purchaseBadge(t, b)
  \/ \E r \in Refs, e \in WebhookEvents, sig \in Signatures : handlePaystackWebhook(r, e, sig)
  \/ \E r \in Refs : verifyBadgePurchase(r)
  \/ \E c \in LiveChallenges : createTask(c)
  \/ \E id \in LiveTaskIds : deleteTask(id)
  \/ \E t \in ActiveTeens, id \in LiveTaskIds, ok \in BOOLEAN : submitTaskResponse(t, id, ok)
  \/ \E s \in submission, st \in ReviewInputs :
       s.teenId \in ActiveTeens /\ s.taskId \in LiveTaskIds /\ reviewSubmission(s, st, NoScore)
  \/ \E s \in submission, st \in ReviewInputs \cap SubmissionStatus :
       s.teenId \in ActiveTeens /\ s.taskId \in LiveTaskIds /\ reviewSubmissionV1(s, st, NoScore)
  \/ \E s \in submission :
       s.teenId \in ActiveTeens /\ s.taskId \in LiveTaskIds /\ deleteSubmission(s)

Spec == Init /\ [][Next]_vars


\* ============================================= concurrent requests (SpecConc)
\* Two requests are in flight; every awaited database call is one step.
Procs == {"p1", "p2"}

NoLocal ==
  [op |-> "none", teenId |-> "t1", taskId |-> 0, status |-> "APPROVED",
   challengeId |-> 0, existing |-> FALSE, totalTasks |-> 0, completedSubmissions |-> 0,
   badgeId |-> 0, purchasedBadges |-> 0, code |-> 0]

InitConc ==
  /\ \E st \in {"APPROVED", "REJECTED"} :
       /\ task = {SeedTask} \cup {[id |-> id, challengeId |-> 1] : id \in {1, 2}}
       /\ submission =
            {SubmissionRow(SeedTask.id, t, "APPROVED", NoScore) : t \in Teens}
            \cup {SubmissionRow(1, "t1", st, NoScore)}
       /\ teenProgress =
            [k \in (Teens \X {SeedTask.challengeId}) \cup {<<"t1", 1>>} |->
               IF k[2] = 1
                 THEN ProgressRow(IF st = "APPROVED" THEN 1 ELSE 0, 2, 1)
                 ELSE ProgressRow(1, 1, 1)]
  /\ \E paid \in BOOLEAN :
       /\ teenBadge = IF paid
                        THEN Upsert(SeedTeenBadge, <<"t1", 1>>, [status |-> "AVAILABLE"])
                        ELSE SeedTeenBadge
       /\ gateway = IF paid
                      THEN Upsert(<<>>, "ref_1",
                                  [teenId |-> "t1", badgeId |-> 1, status |-> "success"])
                      ELSE <<>>
  /\ raffleEntry = [k \in ({"t1"} \X Years) \cup {<<"t2", 2025>>} |-> [isEligible |-> FALSE]]
  /\ transaction = <<>>
  /\ last = Answer(0, {}, {})
  /\ pc = [p \in Procs |-> "idle"]
  /\ local = [p \in Procs |-> NoLocal]
  /\ InitCatalog
  /\ returned = <<>>
  /\ InitExtra

Goto(p, label, loc) ==
  /\ pc' = [pc EXCEPT ![p] = label]
  /\ local' = [local EXCEPT ![p] = loc]

HasSubmission(taskId, teenId) ==
  \E s \in submission : s.taskId = taskId /\ s.teenId = teenId

\* submitTaskResponse: prisma.task.findUnique
SubmitFindTask(p, teenId, taskId) ==
  /\ pc[p] = "idle"
  /\ IF \A x \in task : x.id # taskId
       THEN Goto(p, "done", [NoLocal EXCEPT !.op = "submit", !.code = 404])
       ELSE LET x == CHOOSE y \in task : y.id = taskId
            IN Goto(p, "submit_findExisting",
                    [NoLocal EXCEPT !.op = "submit", !.teenId = teenId, !.taskId = taskId,
                                    !.challengeId = x.challengeId])
  /\ UNCHANGED <<db, gateway, last, other>>

\* submitTaskResponse: prisma.submission.findUnique({ taskId_teenId })
SubmitFindExisting(p) ==
  /\ pc[p] = "submit_findExisting"
  /\ Goto(p, "submit_write",
          [local[p] EXCEPT !.existing = HasSubmission(local[p].taskId, local[p].teenId)])
  /\ UNCHANGED <<db, gateway, last, other>>

\* submitTaskResponse: prisma.submission.update (row found before) or .create (no row found);
\* update of a row that is gone and create of a row that exists throw, and the catch answers 500
SubmitWrite(p) ==
  /\ pc[p] = "submit_write"
  /\ LET l == local[p]
         others == {s \in submission : ~(s.taskId = l.taskId /\ s.teenId = l.teenId)}
     IN IF l.existing = HasSubmission(l.taskId, l.teenId)
          THEN /\ submission' = others \cup {SubmissionRow(l.taskId, l.teenId, "APPROVED",
                                                 ScoreOf(submission, l.taskId, l.teenId))}
               /\ Goto(p, "helper_tasks", [l EXCEPT !.code = IF l.existing THEN 200 ELSE 201])
          ELSE /\ submission' = submission
               /\ Goto(p, "done", [l EXCEPT !.code = 500])
  /\ UNCHANGED <<task, teenProgress, teenBadge, raffleEntry, transaction, gateway, last, other>>

\* reviewSubmission: status check and prisma.submission.findUnique
ReviewFind(p, s, status) ==
  /\ pc[p] = "idle"
  /\ s \in submission
  /\ status \in SubmissionStatus
  /\ LET x == CHOOSE y \in task : y.id = s.taskId
     IN Goto(p, "review_update",
             [NoLocal EXCEPT !.op = "review", !.teenId = s.teenId, !.taskId = s.taskId,
                             !.status = status, !.challengeId = x.challengeId])
  /\ UNCHANGED <<db, gateway, last, other>>

\* reviewSubmission: prisma.submission.update; it throws when the row is gone
ReviewUpdate(p) ==
  /\ pc[p] = "review_update"
  /\ LET l == local[p]
         others == {s \in submission : ~(s.taskId = l.taskId /\ s.teenId = l.teenId)}
     IN IF HasSubmission(l.taskId, l.teenId)
          THEN /\ submission' = others \cup {SubmissionRow(l.taskId, l.teenId, l.status,
                                                 ScoreOf(submission, l.taskId, l.teenId))}
               /\ Goto(p, "helper_tasks", [l EXCEPT !.code = 200])
          ELSE /\ submission' = submission
               /\ Goto(p, "done", [l EXCEPT !.code = 500])
  /\ UNCHANGED <<task, teenProgress, teenBadge, raffleEntry, transaction, gateway, last, other>>

\* deleteSubmission: prisma.submission.findUnique
DeleteFind(p, s) ==
  /\ pc[p] = "idle"
  /\ s \in submission
  /\ LET x == CHOOSE y \in task : y.id = s.taskId
     IN Goto(p, "delete_delete",
             [NoLocal EXCEPT !.op = "deleteSubmission", !.teenId = s.teenId,
                             !.taskId = s.taskId, !.challengeId = x.challengeId])
  /\ UNCHANGED <<db, gateway, last, other>>

\* deleteSubmission: prisma.submission.delete; it throws when the row is gone
DeleteDelete(p) ==
  /\ pc[p] = "delete_delete"
  /\ LET l == local[p]
         others == {s \in submission : ~(s.taskId = l.taskId /\ s.teenId = l.teenId)}
     IN IF HasSubmission(l.taskId, l.teenId)
          THEN /\ submission' = others
               /\ Goto(p, "helper_tasks", [l EXCEPT !.code = 200])
          ELSE /\ submission' = submission
               /\ Goto(p, "done", [l EXCEPT !.code = 500])
  /\ UNCHANGED <<task, teenProgress, teenBadge, raffleEntry, transaction, gateway, last, other>>

\* updateTeenProgressHelper: prisma.task.findMany
HelperTasks(p) ==
  /\ pc[p] = "helper_tasks"
  /\ Goto(p, "helper_count",
          [local[p] EXCEPT !.totalTasks = CountTasks(task, local[p].challengeId)])
  /\ UNCHANGED <<db, gateway, last, other>>

\* updateTeenProgressHelper: prisma.submission.count
HelperCount(p) ==
  /\ pc[p] = "helper_count"
  /\ Goto(p, "helper_upsert",
          [local[p] EXCEPT !.completedSubmissions =
             CountApproved(submission, task, local[p].teenId, local[p].challengeId)])
  /\ UNCHANGED <<db, gateway, last, other>>

\* updateTeenProgressHelper: prisma.teenProgress.upsert, then the handler answers
HelperUpsert(p) ==
  /\ pc[p] = "helper_upsert"
  /\ \E date \in NewDate(teenProgress) :
       teenProgress' = Upsert(teenProgress, <<local[p].teenId, local[p].challengeId>>,
                              ProgressRow(local[p].completedSubmissions,
                                          local[p].totalTasks, date))
  /\ Goto(p, "done", local[p])
  /\ UNCHANGED <<task, submission, teenBadge, raffleEntry, transaction, gateway, last, other>>

\* purchaseBadge: prisma.badge.findUnique and prisma.teenBadge.findUnique (existingBadge)
PurchaseFindExisting(p, teenId, badgeId) ==
  /\ pc[p] = "idle"
  /\ badgeId \in BadgeIds
  /\ IF AlreadyPurchased(teenBadge, <<teenId, badgeId>>)
       THEN Goto(p, "done", [NoLocal EXCEPT !.op = "purchase", !.teenId = teenId,
                                            !.badgeId = badgeId, !.code = 400])
       ELSE Goto(p, "purchase_upsert",
                 [NoLocal EXCEPT !.op = "purchase", !.teenId = teenId, !.badgeId = badgeId,
                                 !.challengeId = ChallengeOfBadge(badgeId)])
  /\ UNCHANGED <<db, gateway, last, other>>

\* verifyBadgePurchase: paystack.transaction.verify and prisma.badge.findUnique
VerifyStart(p, ref) ==
  /\ pc[p] = "idle"
  /\ ref \in DOMAIN gateway
  /\ gateway[ref].status = "success"
  /\ Goto(p, "purchase_upsert",
          [NoLocal EXCEPT !.op = "verify", !.teenId = gateway[ref].teenId,
                          !.badgeId = gateway[ref].badgeId,
                          !.challengeId = ChallengeOfBadge(gateway[ref].badgeId)])
  /\ UNCHANGED <<db, gateway, last, other>>

\* purchaseBadge / verifyBadgePurchase: prisma.teenBadge.upsert to PURCHASED
PurchaseUpsert(p) ==
  /\ pc[p] = "purchase_upsert"
  /\ teenBadge' = Upsert(teenBadge, <<local[p].teenId, local[p].badgeId>>,
                         [status |-> "PURCHASED"])
  /\ Goto(p, "purchase_findProgress", local[p])
  /\ UNCHANGED <<task, submission, teenProgress, raffleEntry, transaction, gateway, last, other>>

\* purchaseBadge / verifyBadgePurchase: prisma.teenProgress.findUnique
PurchaseFindProgress(p) ==
  /\ pc[p] = "purchase_findProgress"
  /\ LET key == <<local[p].teenId, local[p].challengeId>>
     IN IF key \in DOMAIN teenProgress /\ teenProgress[key].percentage = 100
          THEN Goto(p, "purchase_earn", local[p])
          ELSE Goto(p, "raffle_count", local[p])
  /\ UNCHANGED <<db, gateway, last, other>>

\* purchaseBadge / verifyBadgePurchase: prisma.teenBadge.update to EARNED
PurchaseEarn(p) ==
  /\ pc[p] = "purchase_earn"
  /\ teenBadge' = Upsert(teenBadge, <<local[p].teenId, local[p].badgeId>>,
                         [status |-> "EARNED"])
  /\ Goto(p, "raffle_count", local[p])
  /\ UNCHANGED <<task, submission, teenProgress, raffleEntry, transaction, gateway, last, other>>

\* updateRaffleEligibilityHelper: prisma.teenBadge.count
RaffleCount(p) ==
  /\ pc[p] = "raffle_count"
  /\ Goto(p, "raffle_upsert",
          [local[p] EXCEPT !.purchasedBadges =
             CountPurchased(teenBadge, local[p].teenId, YearOf(local[p].challengeId))])
  /\ UNCHANGED <<db, gateway, last, other>>

\* updateRaffleEligibilityHelper: prisma.raffleEntry.upsert, then the handler answers 200
RaffleUpsert(p) ==
  /\ pc[p] = "raffle_upsert"
  /\ raffleEntry' = Upsert(raffleEntry, <<local[p].teenId, YearOf(local[p].challengeId)>>,
                           [isEligible |-> IsEligible(local[p].purchasedBadges)])
  /\ Goto(p, "done", [local[p] EXCEPT !.code = 200])
  /\ UNCHANGED <<task, submission, teenProgress, teenBadge, transaction, gateway, last, other>>

NextConc ==
  \E p \in Procs :
    \/ \E t \in ActiveTeens, id \in LiveTaskIds : SubmitFindTask(p, t, id)
    \/ SubmitFindExisting(p)
    \/ SubmitWrite(p)
    \/ \E s \in submission, st \in ReviewInputs \cap SubmissionStatus :
         s.teenId \in ActiveTeens /\ s.taskId \in LiveTaskIds /\ ReviewFind(p, s, st)
    \/ ReviewUpdate(p)
    \/ \E s \in submission :
         s.teenId \in ActiveTeens /\ s.taskId \in LiveTaskIds /\ DeleteFind(p, s)
    \/ DeleteDelete(p)
    \/ HelperTasks(p)
    \/ HelperCount(p)
    \/ HelperUpsert(p)
    \/ \E t \in ActiveTeens, b \in LiveBadges : PurchaseFindExisting(p, t, b)
    \/ \E r \in Refs : VerifyStart(p, r)
    \/ PurchaseUpsert(p)
    \/ PurchaseFindProgress(p)
    \/ PurchaseEarn(p)
    \/ RaffleCount(p)
    \/ RaffleUpsert(p)

SpecConc == InitConc /\ [][NextConc]_vars


\* ================================== recomputation called in a row (SpecRecompute)
\* The tables hold some tasks of challenge 1 and some submissions of teen t1 on
\* them; updateTeenProgressHelper is then called repeatedly and nothing else runs.
NoSubmission == "NONE"

RecomputePairs == {<<"t1", 1>>, <<"t1", SeedTask.challengeId>>}

InitRecompute ==
  /\ \E ids \in SUBSET LiveTaskIds :
       \E f \in [ids -> SubmissionStatus \cup {NoSubmission}] :
         LET tk == {SeedTask} \cup {[id |-> id, challengeId |-> 1] : id \in ids}
             seeded == {SubmissionRow(SeedTask.id, t, "APPROVED", NoScore) : t \in Teens}
             mine == {SubmissionRow(id, "t1", f[id], NoScore) :
                        id \in {i \in ids : f[i] # NoSubmission}}
             rows == [k \in Teens \X {SeedTask.challengeId} |-> ProgressRow(1, 1, 1)]
         IN /\ task = tk
            /\ submission = seeded \cup mine
            /\ teenProgress =
                 IF mine = {} THEN rows
                 ELSE updateTeenProgressHelper(rows, seeded \cup mine, tk, "t1", 1, 1)
  /\ teenBadge = SeedTeenBadge
  /\ raffleEntry = [k \in ({"t1"} \X Years) \cup {<<"t2", 2025>>} |-> [isEligible |-> FALSE]]
  /\ transaction = <<>>
  /\ gateway = <<>>
  /\ InitCatalog
  /\ returned = <<>>
  /\ InitExtra
  /\ last = Answer(0, {}, {})
  /\ pc = <<>>
  /\ local = <<>>

\* one call of updateTeenProgressHelper(teenId, challengeId), run to completion
RecomputeCall(teenId, challengeId) ==
  /\ Len(returned) < MaxCalls
  /\ \E date \in NewDate(teenProgress) :
       teenProgress' = updateTeenProgressHelper(teenProgress, submission, task,
                                                teenId, challengeId, date)
  /\ returned' = Append(returned,
                        [key |-> <<teenId, challengeId>>,
                         result |-> HelperResult(submission, task, teenId, challengeId),
                         row |-> teenProgress'[<<teenId, challengeId>>]])
  /\ UNCHANGED <<task, submission, teenBadge, raffleEntry, transaction, gateway, last,
                 pc, local, monthlyChallenge, badge, challengeRows, raffleDraw, sent, call>>

NextRecompute == \E k \in RecomputePairs : RecomputeCall(k[1], k[2])

SpecRecompute == InitRecompute /\ [][NextRecompute]_vars


\* ================================================ reviews with scores (SpecReview)
\* One submission of teen t1 is reviewed again and again, with and without a score.
StatusInputs == SubmissionStatus \cup {"BOGUS", NoStatus}
ScoreInputs == {NoScore} \cup {<<n>> : n \in {-1, 0, MaxScore, MaxScore + 1}}

InitReview ==
  /\ task = {SeedTask} \cup {[id |-> i, challengeId |-> 1] : i \in 1..2}
  /\ submission = {SubmissionRow(SeedTask.id, t, "APPROVED", NoScore) : t \in Teens}
                  \cup {SubmissionRow(i, "t1", "APPROVED", NoScore) : i \in 1..2}
  /\ teenProgress = [k \in (Teens \X {SeedTask.challengeId}) \cup {<<"t1", 1>>}
                       |-> IF k[2] = 1 THEN ProgressRow(2, 2, 1) ELSE ProgressRow(1, 1, 1)]
  /\ teenBadge = SeedTeenBadge
  /\ raffleEntry = [k \in ({"t1"} \X Years) \cup {<<"t2", 2025>>} |-> [isEligible |-> FALSE]]
  /\ transaction = <<>>
  /\ gateway = <<>>
  /\ InitCatalog
  /\ returned = <<>>
  /\ InitExtra
  /\ last = Answer(0, {}, {})
  /\ pc = <<>>
  /\ local = <<>>

NextReview ==
  \/ \E s \in submission, st \in StatusInputs, sc \in ScoreInputs :
       s.teenId \in ActiveTeens /\ s.taskId \in LiveTaskIds /\ reviewSubmission(s, st, sc)
  \/ \E s \in submission, st \in StatusInputs, sc \in ScoreInputs :
       s.teenId \in ActiveTeens /\ s.taskId \in LiveTaskIds /\ reviewSubmissionV1(s, st, sc)

SpecReview == InitReview /\ [][NextReview]_vars


\* ============================================ challenge and badge catalog (SpecAdmin)
\* The staff requests on MonthlyChallenge and Badge: the handlers of the challenge
\* controller (createChallenge .. toggleChallengeStatus), of adminController
\* (createChallengeAdmin, updateChallengeAdmin, publishChallengeAdmin) and of
\* badgeController (createBadge, deleteBadge).
AdminChallenges == {11, 12}   \* challenges and badges the enumerated staff requests name
NewChallenges == {12}         \* not yet created at the start
AbsentField == <<>>           \* a body field that was not sent (or is not a boolean)
FieldInputs == {AbsentField, <<TRUE>>, <<FALSE>>}
ToggleFields == {"isPublished", "isActive", "theme"}

AnswerAdmin(code) ==
  /\ last' = Answer(code, {}, {})
  /\ UNCHANGED <<db, gateway, pc, local, returned, challengeRows, raffleDraw, sent, call>>

Refuse(code) ==
  /\ AnswerAdmin(code)
  /\ UNCHANGED <<monthlyChallenge, badge>>

\* a new challenge is a draft; the schema's default of isActive is drawn by the caller
createChallenge(c, badgeData, isActive) ==
  IF c \in DOMAIN monthlyChallenge THEN Refuse(400)
  ELSE IF ~badgeData THEN Refuse(400)
  ELSE /\ monthlyChallenge' = (c :> [isPublished |-> FALSE, isActive |-> isActive]) @@ monthlyChallenge
       /\ badge' = badge \cup {c}
       /\ AnswerAdmin(201)

createChallengeAdmin(c, badgeData, datesInOrder, isActive) ==
  IF c \in DOMAIN monthlyChallenge THEN Refuse(400)
  ELSE IF ~datesInOrder THEN Refuse(400)
  ELSE /\ monthlyChallenge' = (c :> [isPublished |-> FALSE, isActive |-> isActive]) @@ monthlyChallenge
       /\ badge' = IF badgeData THEN badge \cup {c} ELSE badge
       /\ AnswerAdmin(201)

publishChallenge(c) ==
  IF c \notin DOMAIN monthlyChallenge THEN Refuse(404)
  ELSE IF c \notin badge THEN Refuse(400)
  ELSE /\ monthlyChallenge' = [monthlyChallenge EXCEPT ![c] = [isPublished |-> TRUE, isActive |-> TRUE]]
       /\ UNCHANGED badge
       /\ AnswerAdmin(200)

publishChallengeAdmin(c) ==
  IF c \notin DOMAIN monthlyChallenge THEN Refuse(404)
  ELSE IF monthlyChallenge[c].isPublished THEN Refuse(400)
  ELSE /\ monthlyChallenge' = [monthlyChallenge EXCEPT ![c].isPublished = TRUE]
       /\ UNCHANGED badge
       /\ AnswerAdmin(200)

updateChallenge(c, isPublished, isActive, badgeData) ==
  IF c \notin DOMAIN monthlyChallenge THEN Refuse(404)
  ELSE /\ monthlyChallenge' = [monthlyChallenge EXCEPT ![c] =
            [isPublished |-> IF isPublished # AbsentField THEN isPublished[1] ELSE @.isPublished,
             isActive |-> IF isActive # AbsentField THEN isActive[1] ELSE @.isActive]]
       /\ badge' = IF badgeData THEN badge \cup {c} ELSE badge
       /\ AnswerAdmin(200)

updateChallengeAdmin(c, datesInOrder) ==
  IF c \notin DOMAIN monthlyChallenge THEN Refuse(404)
  ELSE IF ~datesInOrder THEN Refuse(400)
  ELSE Refuse(200)

toggleChallengeStatus(c, field) ==
  IF field \notin {"isPublished", "isActive"} THEN Refuse(400)
  ELSE IF c \notin DOMAIN monthlyChallenge THEN Refuse(404)
  ELSE IF field = "isPublished" /\ ~monthlyChallenge[c].isPublished /\ c \notin badge
    THEN Refuse(400)
  ELSE /\ monthlyChallenge' = [monthlyChallenge EXCEPT ![c][field] = ~@]
       /\ UNCHANGED badge
       /\ AnswerAdmin(200)

createBadge(c) ==
  IF c \notin DOMAIN monthlyChallenge THEN Refuse(404)
  ELSE IF c \in badge THEN Refuse(400)
  ELSE /\ badge' = badge \cup {c}
       /\ UNCHANGED monthlyChallenge
       /\ AnswerAdmin(201)

\* prisma.badge.delete of a badge that does not exist throws: 500
deleteBadge(b) ==
  LET purchaseCount == Cardinality({k \in DOMAIN teenBadge : k[2] = b})
  IN IF purchaseCount > 0 THEN Refuse(400)
     ELSE IF b \notin badge THEN Refuse(500)
     ELSE /\ badge' = badge \ {b}
          /\ UNCHANGED monthlyChallenge
          /\ AnswerAdmin(200)

InitAdmin ==
  /\ InitDb
  /\ monthlyChallenge = [c \in ChallengeIds \ NewChallenges |-> [isPublished |-> TRUE, isActive |-> TRUE]]
  /\ badge = BadgeIds \ NewChallenges
  /\ returned = <<>>
  /\ InitExtra
  /\ last = Answer(0, {}, {})
  /\ pc = <<>>
  /\ local = <<>>

NextAdmin ==
  \/ \E c \in AdminChallenges, badgeData \in BOOLEAN, isActive \in BOOLEAN :
       createChallenge(c, badgeData, isActive)
  \/ \E c \in AdminChallenges, badgeData \in BOOLEAN, datesInOrder \in BOOLEAN, isActive \in BOOLEAN :
       createChallengeAdmin(c, badgeData, datesInOrder, isActive)
  \/ \E c \in AdminChallenges : publishChallenge(c)
  \/ \E c \in AdminChallenges : publishChallengeAdmin(c)
  \/ \E c \in AdminChallenges, isPublished \in FieldInputs, isActive \in FieldInputs,
        badgeData \in BOOLEAN :
       updateChallenge(c, isPublished, isActive, badgeData)
  \/ \E c \in AdminChallenges, datesInOrder \in BOOLEAN : updateChallengeAdmin(c, datesInOrder)
  \/ \E c \in AdminChallenges, field \in ToggleFields : toggleChallengeStatus(c, field)
  \/ \E c \in AdminChallenges : createBadge(c)
  \/ \E b \in AdminChallenges : deleteBadge(b)

SpecAdmin == InitAdmin /\ [][NextAdmin]_vars


\* ============================================ concurrent createChallenge (SpecCreate)
\* Two createChallenge requests (of the challenge controller or of adminController)
\* run concurrently, one action per awaited database call. MonthlyChallenge rows
\* carry their own id, so that two rows of one month are two rows.
CreateMonths == {<<2025, 12>>, <<2026, 1>>, <<2026, 2>>}
SeedMonths == {<<2025, 12>>}
CreateOps == {"createChallenge", "createChallengeAdmin"}

NoLocalCreate ==
  [op |-> "none", ym |-> <<0, 0>>, badgeData |-> FALSE, datesInOrder |-> FALSE,
   existing |-> FALSE, code |-> 0]

HasChallenge(rows, ym) == \E r \in rows : r.ym = ym

\* a database that accepts a second row of the same (year, month)
UniqueYearMonthAlt(rows, ym) == TRUE

\* the unique key year_month of MonthlyChallenge accepts the new row
UniqueYearMonth(rows, ym) == ~HasChallenge(rows, ym)

InitCreate ==
  /\ InitDb
  /\ InitCatalog
  /\ returned = <<>>
  /\ challengeRows = {[id |-> 1, ym |-> ym, badge |-> TRUE] : ym \in SeedMonths}
  /\ raffleDraw = {}
  /\ sent = <<>>
  /\ call = <<>>
  /\ last = Answer(0, {}, {})
  /\ pc = [p \in Procs |-> "idle"]
  /\ local = [p \in Procs |-> NoLocalCreate]

\* createChallenge: prisma.monthlyChallenge.findFirst({ year, month })
CreateFindFirst(p, op, ym, badgeData, datesInOrder) ==
  /\ pc[p] = "idle"
  /\ Goto(p, "create_write",
          [NoLocalCreate EXCEPT !.op = op, !.ym = ym, !.badgeData = badgeData,
                                !.datesInOrder = datesInOrder,
                                !.existing = HasChallenge(challengeRows, ym)])
  /\ UNCHANGED <<db, gateway, last, monthlyChallenge, badge, returned, challengeRows, raffleDraw, sent, call>>

\* createChallenge: the checks after findFirst and prisma.monthlyChallenge.create;
\* create throws on the unique key and the catch block answers 500
CreateWrite(p) ==
  /\ pc[p] = "create_write"
  /\ LET loc == local[p]
         refused == \/ loc.existing
                    \/ loc.op = "createChallenge" /\ ~loc.badgeData
                    \/ loc.op = "createChallengeAdmin" /\ ~loc.datesInOrder
     IN IF refused
          THEN /\ Goto(p, "done", [loc EXCEPT !.code = 400])
               /\ UNCHANGED challengeRows
          ELSE IF ~UniqueYearMonth(challengeRows, loc.ym)
            THEN /\ Goto(p, "done", [loc EXCEPT !.code = 500])
                 /\ UNCHANGED challengeRows
            ELSE /\ challengeRows' = challengeRows \cup
                      {[id |-> Cardinality(challengeRows) + 1, ym |-> loc.ym,
                        badge |-> loc.badgeData]}
                 /\ Goto(p, "done", [loc EXCEPT !.code = 201])
  /\ UNCHANGED <<db, gateway, last, monthlyChallenge, badge, returned, raffleDraw, sent, call>>

NextCreate ==
  \/ \E p \in Procs, op \in CreateOps, ym \in CreateMonths, badgeData \in BOOLEAN,
        datesInOrder \in BOOLEAN :
       CreateFindFirst(p, op, ym, badgeData, datesInOrder)
  \/ \E p \in Procs : CreateWrite(p)

SpecCreate == InitCreate /\ [][NextCreate]_vars


\* ======================================================= the yearly raffle (SpecRaffle)
\* Teens buy badges (purchaseBadge), which recomputes their RaffleEntry, and an
\* admin calls createRaffleDraw.
TeenOrder == <<"t1", "t2">>           \* the order in which findMany returns the entries
DrawYears == Years \cup {2027, 1999}  \* 2027: no entry; 1999: refused by the route's validator
ValidYear(year) == 2020 <= year /\ year <= 2030

\* the entries of the year, eligible or not
EligibleEntriesAlt(raffle, year) ==
  SelectSeq(TeenOrder, LAMBDA t : <<t, year>> \in DOMAIN raffle)

\* prisma.raffleEntry.findMany({ where: { year, isEligible: true } })
EligibleEntries(raffle, year) ==
  SelectSeq(TeenOrder, LAMBDA t : <<t, year>> \in DOMAIN raffle /\ raffle[<<t, year>>].isEligible)

\* random: Math.random(), as an index it may select in a list of two
createRaffleDraw(year, random) ==
  /\ UNCHANGED <<db, gateway, pc, local, monthlyChallenge, badge, returned, challengeRows, sent, call>>
  /\ IF ~ValidYear(year)
       THEN last' = Answer(400, {}, {}) /\ UNCHANGED raffleDraw
       ELSE IF \E r \in raffleDraw : r.year = year
       THEN last' = Answer(400, {}, {}) /\ UNCHANGED raffleDraw
       ELSE LET eligibleEntries == EligibleEntries(raffleEntry, year)
            IN IF Len(eligibleEntries) = 0
                 THEN last' = Answer(400, {}, {}) /\ UNCHANGED raffleDraw
                 ELSE LET randomIndex == random % Len(eligibleEntries)
                          winner == eligibleEntries[randomIndex + 1]
                      IN /\ raffleDraw' = raffleDraw \cup {[year |-> year, winnerId |-> winner]}
                         /\ last' = Answer(201, {}, {})

\* teen t2 holds the seeded badge, or the first ten, eleven or twelve badges of 2025
InitRaffle ==
  /\ task = {SeedTask}
  /\ submission = {SubmissionRow(SeedTask.id, t, "APPROVED", NoScore) : t \in Teens}
  /\ teenProgress = [k \in Teens \X {SeedTask.challengeId} |-> ProgressRow(1, 1, 1)]
  /\ \E held \in {1, 10, 11, 12} :
       /\ teenBadge = [k \in {"t2"} \X (1..held) |-> [status |-> "PURCHASED"]] @@ SeedTeenBadge
       /\ raffleEntry = [k \in ({"t1"} \X Years) \cup {<<"t2", 2025>>}
                           |-> [isEligible |-> k = <<"t2", 2025>> /\ held = 12]]
  /\ transaction = <<>>
  /\ gateway = <<>>
  /\ InitCatalog
  /\ returned = <<>>
  /\ challengeRows = {}
  /\ raffleDraw = {}
  /\ sent = <<>>
  /\ call = <<>>
  /\ last = Answer(0, {}, {})
  /\ pc = <<>>
  /\ local = <<>>

NextRaffle ==
  \/ \E t \in Teens, b \in LiveBadges \cup DirectBadges \cup MissingBadge : purchaseBadge(t, b)
  \/ \E year \in DrawYears, random \in 0..1 : createRaffleDraw(year, random)

SpecRaffle == InitRaffle /\ [][NextRaffle]_vars


\* ================================================ publishing with notifications (SpecNotify)
\* publishChallenge with what it sends: the e-mail and the push notification may
\* fail. sent lists every response the handler tries to send; the client receives
\* the first, and Express throws ERR_HTTP_HEADERS_SENT on each later one.
Respond(code) ==
  /\ last' = Answer(code, {}, {})
  /\ sent' = <<code>>
  /\ UNCHANGED <<db, gateway, pc, local, returned, challengeRows, raffleDraw, call>>

\* challenge controller: the e-mail is sent inside try/catch; res.json runs before
\* the push notification and once more after it, where it throws into the outer
\* catch, whose res.status(500).json throws again
publishChallengeNotify(c, emailFails, pushFails) ==
  IF c \notin DOMAIN monthlyChallenge
    THEN Respond(404) /\ UNCHANGED <<monthlyChallenge, badge>>
  ELSE IF c \notin badge
    THEN Respond(400) /\ UNCHANGED <<monthlyChallenge, badge>>
  ELSE /\ monthlyChallenge' = [monthlyChallenge EXCEPT ![c] = [isPublished |-> TRUE, isActive |-> TRUE]]
       /\ UNCHANGED badge
       /\ last' = Answer(200, {}, {})
       /\ sent' = <<200, 200, 500>>
       /\ UNCHANGED <<db, gateway, pc, local, returned, challengeRows, raffleDraw, call>>

\* adminController: sendChallengeNotification is awaited outside any try of its
\* own; sendEmail catches and logs the failure of each mail
publishChallengeAdminNotify(c, emailFails) ==
  IF c \notin DOMAIN monthlyChallenge
    THEN Respond(404) /\ UNCHANGED <<monthlyChallenge, badge>>
  ELSE IF monthlyChallenge[c].isPublished
    THEN Respond(400) /\ UNCHANGED <<monthlyChallenge, badge>>
  ELSE /\ monthlyChallenge' = [monthlyChallenge EXCEPT ![c].isPublished = TRUE]
       /\ UNCHANGED badge
       /\ Respond(200)

NextNotify ==
  \/ \E c \in AdminChallenges, emailFails \in BOOLEAN, pushFails \in BOOLEAN :
       publishChallengeNotify(c, emailFails, pushFails)
  \/ \E c \in AdminChallenges, emailFails \in BOOLEAN : publishChallengeAdminNotify(c, emailFails)
  \/ \E c \in AdminChallenges, badgeData \in BOOLEAN, datesInOrder \in BOOLEAN, isActive \in BOOLEAN :
       createChallengeAdmin(c, badgeData, datesInOrder, isActive)
  \/ \E c \in AdminChallenges, field \in ToggleFields : toggleChallengeStatus(c, field)
  \/ \E b \in AdminChallenges : deleteBadge(b)

SpecNotify == InitAdmin /\ [][NextNotify]_vars


\* ============================================ submissions on a challenge (SpecSubmit)
\* Teen t1 submits, with valid and invalid content, while staff create tasks,
\* send submissions back (REJECTED or PENDING, with or without a score) and
\* publish or unpublish the challenge.
NextSubmit ==
  \/ \E c \in LiveChallenges : createTask(c)
  \/ \E t \in ActiveTeens, id \in LiveTaskIds, ok \in BOOLEAN : submitTaskResponse(t, id, ok)
  \/ \E s \in submission, st \in {"REJECTED", "PENDING"}, sc \in {NoScore, <<MaxScore>>} :
       s.teenId \in ActiveTeens /\ s.taskId \in LiveTaskIds /\ reviewSubmission(s, st, sc)
  \/ \E c \in LiveChallenges, field \in ToggleFields : toggleChallengeStatus(c, field)

SpecSubmit == Init /\ [][NextSubmit]_vars


\* ============================================ checklist validation (SpecChecklist)
\* validateChecklistSubmission as a function of the task's items and of the
\* submitted checkedItems, in its two definitions (utils/validation.js and
\* middleware/validation.js, the one submissionController imports).
MaxLen == 2                          \* longest submitted checkedItems array
ItemIds == {"a", "b"}                \* ids a task may define
SubmittedIds == ItemIds \cup {"x"}   \* ids a teen may submit
NoError == "null"

\* the task's options.items: a set of [id, required]
ItemSets ==
  {items \in SUBSET [id : ItemIds, required : BOOLEAN] :
     \A i, j \in items : i.id = j.id => i = j}

BoundedSeq(S, n) == UNION {[1..m -> S] : m \in 0..n}

\* the submitted value: undefined, a string, text that is not JSON, or an array of ids
CheckedInputs ==
  {[kind |-> k, elems |-> <<>>] : k \in {"undefined", "string", "malformed"}}
  \cup {[kind |-> "array", elems |-> e] : e \in BoundedSeq(SubmittedIds, MaxLen)}

Elems(seq) == {seq[i] : i \in 1..Len(seq)}

\* utils/validation.js; content is the parsed object, so text that is not JSON never gets here
validateChecklistSubmissionUtils(checkedItems, items) ==
  IF checkedItems.kind = "undefined" THEN "Checklist items are required"
  ELSE IF checkedItems.kind # "array" THEN "Checklist must be an array"
  ELSE IF Len(checkedItems.elems) = 0 THEN "Please check at least one item"
  ELSE IF \E itemId \in Elems(checkedItems.elems) : itemId \notin {i.id : i \in items}
    THEN "Invalid checklist item"
  ELSE NoError

\* middleware/validation.js; content is the JSON text of the array
validateChecklistSubmission(checkedItems, items) ==
  IF checkedItems.kind = "undefined" THEN "Checklist items are required"
  ELSE IF checkedItems.kind = "malformed" THEN "Invalid checklist format"
  ELSE IF checkedItems.kind # "array" THEN "Checklist must be an array"
  ELSE IF \E item \in items : item.required /\ item.id \notin Elems(checkedItems.elems)
    THEN "Required item must be checked"
  ELSE NoError

InitChecklist ==
  /\ InitDb
  /\ InitCatalog
  /\ returned = <<>>
  /\ challengeRows = {}
  /\ raffleDraw = {}
  /\ sent = <<>>
  /\ \E items \in ItemSets, checkedItems \in CheckedInputs :
       call = [fn |-> "none", items |-> items, checkedItems |-> checkedItems, result |-> NoError]
  /\ last = Answer(0, {}, {})
  /\ pc = <<>>
  /\ local = <<>>

CallUtils ==
  /\ call.fn = "none"
  /\ call.checkedItems.kind # "malformed"
  /\ call' = [call EXCEPT !.fn = "utils",
                          !.result = validateChecklistSubmissionUtils(call.checkedItems, call.items)]
  /\ UNCHANGED <<db, gateway, last, pc, local, monthlyChallenge, badge, returned,
                 challengeRows, raffleDraw, sent>>

CallMiddleware ==
  /\ call.fn = "none"
  /\ call' = [call EXCEPT !.fn = "middleware",
                          !.result = validateChecklistSubmission(call.checkedItems, call.items)]
  /\ UNCHANGED <<db, gateway, last, pc, local, monthlyChallenge, badge, returned,
                 challengeRows, raffleDraw, sent>>

NextChecklist == CallUtils \/ CallMiddleware

SpecChecklist == InitChecklist /\ [][NextChecklist]_vars


\* ============================================ the percentage (SpecProgress)
\* calculateProgress and the isCompleted of updateTeenProgressHelper as functions
\* of the two counts.
MaxTotal == 200       \* most tasks in a challenge

InitProgress ==
  /\ InitDb
  /\ InitCatalog
  /\ returned = <<>>
  /\ challengeRows = {}
  /\ raffleDraw = {}
  /\ sent = <<>>
  /\ \E total \in 0..MaxTotal :
       \E completed \in 0..total :
         call = [fn |-> "none", completed |-> completed, total |-> total,
                 percentage |-> 0, isCompleted |-> FALSE]
  /\ last = Answer(0, {}, {})
  /\ pc = <<>>
  /\ local = <<>>

\* const percentage = calculateProgress(completedSubmissions, totalTasks);
\* const isCompleted = percentage === 100;
CallCalculateProgress ==
  /\ call.fn = "none"
  /\ LET percentage == calculateProgress(call.completed, call.total)
     IN call' = [call EXCEPT !.fn = "calculateProgress", !.percentage = percentage,
                             !.isCompleted = (percentage = 100)]
  /\ UNCHANGED <<db, gateway, last, pc, local, monthlyChallenge, badge, returned,
                 challengeRows, raffleDraw, sent>>

NextProgress == CallCalculateProgress

SpecProgress == InitProgress /\ [][NextProgress]_vars


\* ============================================ validation called inline (SpecInline)
\* Handlers that begin with handleValidationErrors(req, res, () => {}): the call
\* sends the 400 and returns to the handler, which goes on. createBadge is
\* mounted behind the same function as middleware; purchaseBadge is mounted
\* behind its validators only.
\* middleware/validation.js handleValidationErrors: the responses it sends
handleValidationErrors(bodyValid) == IF bodyValid THEN <<>> ELSE <<400>>

\* POST /purchase: [body('badgeId').notEmpty()], purchaseBadge. Without a badgeId
\* prisma.badge.findUnique throws and the catch block answers 500
purchaseBadgeInline(teenId, badgeId, bodyValid) ==
  /\ UNCHANGED <<task, submission, teenProgress, transaction, gateway, pc, local,
                 monthlyChallenge, badge, returned, challengeRows, raffleDraw, call>>
  /\ IF ~bodyValid
       THEN /\ sent' = handleValidationErrors(bodyValid) \o <<500>>
            /\ last' = Answer(400, {}, {})
            /\ UNCHANGED <<teenBadge, raffleEntry>>
       ELSE IF badgeId \notin BadgeIds
       THEN /\ sent' = handleValidationErrors(bodyValid) \o <<404>>
            /\ last' = Answer(404, {}, {})
            /\ UNCHANGED <<teenBadge, raffleEntry>>
       ELSE IF AlreadyPurchased(teenBadge, <<teenId, badgeId>>)
       THEN /\ sent' = handleValidationErrors(bodyValid) \o <<400>>
            /\ last' = Answer(400, {}, {})
            /\ UNCHANGED <<teenBadge, raffleEntry>>
       ELSE LET challengeId == ChallengeOfBadge(badgeId)
                tb2 == PurchaseThenEvaluate(teenBadge, teenProgress, teenId, badgeId, challengeId)
            IN /\ teenBadge' = tb2
               /\ raffleEntry' = updateRaffleEligibilityHelper(raffleEntry, tb2, teenId,
                                                               YearOf(challengeId))
               /\ sent' = handleValidationErrors(bodyValid) \o <<200>>
               /\ last' = AnswerPurchase(teenProgress, teenId, badgeId, challengeId)

\* POST /badges: validators, handleValidationErrors as middleware, createBadge
createBadgeRoute(c, bodyValid) ==
  IF ~bodyValid
    THEN /\ sent' = handleValidationErrors(bodyValid)
         /\ last' = Answer(400, {}, {})
         /\ UNCHANGED <<db, gateway, pc, local, monthlyChallenge, badge, returned,
                        challengeRows, raffleDraw, call>>
  ELSE IF c \notin DOMAIN monthlyChallenge
    THEN Respond(404) /\ UNCHANGED <<monthlyChallenge, badge>>
  ELSE IF c \in badge
    THEN Respond(400) /\ UNCHANGED <<monthlyChallenge, badge>>
  ELSE /\ badge' = badge \cup {c}
       /\ UNCHANGED monthlyChallenge
       /\ Respond(201)

NextInline ==
  \/ \E t \in Teens, b \in LiveBadges \cup DirectBadges \cup MissingBadge, bodyValid \in BOOLEAN :
       purchaseBadgeInline(t, b, bodyValid)
  \/ \E c \in AdminChallenges, bodyValid \in BOOLEAN : createBadgeRoute(c, bodyValid)
  \/ \E c \in AdminChallenges, badgeData \in BOOLEAN, datesInOrder \in BOOLEAN, isActive \in BOOLEAN :
       createChallengeAdmin(c, badgeData, datesInOrder, isActive)

SpecInline == InitAdmin /\ [][NextInline]_vars

\* ------------------------------------------------ charge webhooks (SpecWebhook)
ChargeEvents == {"charge.success", "charge.failed"}

\* Charges are started and paid at the gateway, the gateway's charge webhooks are
\* delivered in any order and any number of times, and teen t1 works on tasks.
NextWebhook ==
  \/ \E r \in Refs : GatewayCharge(r)
  \/ \E t \in ActiveTeens, b \in LiveBadges : initializeBadgePurchase(t, b)
  \/ \E r \in Refs, e \in ChargeEvents, sig \in Signatures : handlePaystackWebhook(r, e, sig)
  \/ \E c \in LiveChallenges : createTask(c)
  \/ \E t \in ActiveTeens, id \in LiveTaskIds : submitTaskResponse(t, id, TRUE)

SpecWebhook == Init /\ [][NextWebhook]_vars

\* ================================================================ claims
\* number of the teen's APPROVED submissions on tasks of the challenge, read off the tables
ApprovedOnChallenge(teenId, challengeId) ==
  Cardinality({s \in submission :
      /\ s.teenId = teenId
      /\ s.status = "APPROVED"
      /\ [id |-> s.taskId, challengeId |-> challengeId] \in task})

TasksOfChallenge(challengeId) == {x \in task : x.challengeId = challengeId}

\* p is 100 * completed / total rounded to the nearest integer, halves upwards
IsRoundedPercentage(p, completed, total) ==
  /\ 2 * p * total <= 200 * completed + total
  /\ 200 * completed + total < 2 * (p + 1) * total

\* the Progress row of the pair holds the values derived from the tables
ProgressIsDerived(teenId, challengeId) ==
  LET key == <<teenId, challengeId>>
      total == Cardinality(TasksOfChallenge(challengeId))
      completed == ApprovedOnChallenge(teenId, challengeId)
  IN /\ key \in DOMAIN teenProgress
     /\ teenProgress[key].tasksTotal = total
     /\ teenProgress[key].tasksCompleted = completed
     /\ IF total = 0
          THEN teenProgress[key].percentage = 0
          ELSE IsRoundedPercentage(teenProgress[key].percentage, completed, total)

\* a step in which a handler called updateTeenProgressHelper(teenId, challengeId)
RecomputeStep(teenId, challengeId) ==
  \/ \E x \in TasksOfChallenge(challengeId) : submitTaskResponse(teenId, x.id, TRUE)
  \/ \E s \in submission, st \in SubmissionStatus :
       /\ s.teenId = teenId
       /\ [id |-> s.taskId, challengeId |-> challengeId] \in task
       /\ reviewSubmission(s, st, NoScore)
  \/ \E s \in submission :
       /\ s.teenId = teenId
       /\ [id |-> s.taskId, challengeId |-> challengeId] \in task
       /\ deleteSubmission(s)

StatusOf(tb, teenId, badgeId) ==
  IF <<teenId, badgeId>> \in DOMAIN tb THEN tb[<<teenId, badgeId>>].status ELSE "NONE"

\* number of the teen's badges of the year that are PURCHASED or EARNED, read off the table
OwnedInYear(teenId, year) ==
  Cardinality({b \in BadgeIds :
      /\ YearOf(ChallengeOfBadge(b)) = year
      /\ StatusOf(teenBadge, teenId, b) \in {"PURCHASED", "EARNED"}})

\* C1: no TeenBadge ever goes from EARNED to PURCHASED or AVAILABLE, nor from
\* PURCHASED to AVAILABLE, whatever the handlers do.
C1_MonotonicBadgeStates ==
  [][\A k \in DOMAIN teenBadge :
       /\ teenBadge[k].status = "EARNED" => teenBadge'[k].status = "EARNED"
       /\ teenBadge[k].status = "PURCHASED" => teenBadge'[k].status # "AVAILABLE"]_vars

\* C2: in every state between two requests every Progress row holds the number of
\* the teen's APPROVED submissions on the challenge's current tasks and the
\* percentage derived from the current task count.
C2_DerivationInvariant ==
  \A k \in DOMAIN teenProgress :
    LET total == Cardinality(TasksOfChallenge(k[2]))
        completed == ApprovedOnChallenge(k[1], k[2])
    IN /\ teenProgress[k].tasksCompleted = completed
       /\ IF total = 0
            THEN teenProgress[k].percentage = 0
            ELSE IsRoundedPercentage(teenProgress[k].percentage, completed, total)

\* C3: when a handler has run updateTeenProgressHelper(teen, challenge) to completion,
\* the pair's Progress row has tasksTotal = number of tasks of the challenge,
\* tasksCompleted = number of the teen's APPROVED submissions on them, and
\* percentage = 0 for no tasks, else round(100 * tasksCompleted / tasksTotal).
C3_RecomputePostcondition ==
  \A k \in last.progressCalls : ProgressIsDerived(k[1], k[2])

\* C3 witness: the helper has written a half-complete row (1 of 2 tasks approved)
C3_Witness ==
  /\ <<"t1", 1>> \in last.progressCalls
  /\ ProgressIsDerived("t1", 1)
  /\ teenProgress[<<"t1", 1>>].tasksTotal = 2
  /\ teenProgress[<<"t1", 1>>].tasksCompleted = 1
  /\ teenProgress[<<"t1", 1>>].percentage = 50
  /\ \E s \in submission : s.teenId = "t1" /\ s.status = "REJECTED"

\* C4: a submission or review that brings the Progress of a teen holding the
\* challenge's badge as PURCHASED to 100% leaves that badge EARNED.
C4_EarnedOnCompletion ==
  [][\A t \in ActiveTeens, c \in LiveChallenges :
       (/\ RecomputeStep(t, c)
        /\ StatusOf(teenBadge, t, c) = "PURCHASED"
        /\ ~(<<t, c>> \in DOMAIN teenProgress /\ teenProgress[<<t, c>>].percentage = 100)
        /\ teenProgress'[<<t, c>>].percentage = 100)
       => StatusOf(teenBadge', t, c) = "EARNED"]_vars

\* C5: a purchase attempt for a badge the teen already holds as PURCHASED or EARNED
\* is answered 400 and leaves the TeenBadge table as it was.
C5_DuplicatePurchaseRejected ==
  [][\A t \in ActiveTeens, b \in BadgeIds :
       (/\ StatusOf(teenBadge, t, b) \in {"PURCHASED", "EARNED"}
        /\ initializeBadgePurchase(t, b) \/ purchaseBadge(t, b))
       => (last'.code = 400 /\ teenBadge' = teenBadge)]_vars

\* C6: a charge.success delivery for a reference whose Transaction is already
\* SUCCESS (an earlier delivery wrote it) leaves one Transaction for the reference
\* and leaves the TeenBadge and RaffleEntry tables as they were.
C6_DuplicateWebhookNoOp ==
  [][\A r \in Refs :
       (/\ r \in DOMAIN transaction
        /\ transaction[r].status = "SUCCESS"
        /\ handleSuccessfulCharge(r))
       => (/\ transaction' = transaction
           /\ teenBadge' = teenBadge
           /\ raffleEntry' = raffleEntry)]_vars

\* C7: after every request that changes (or creates) a TeenBadge status the
\* RaffleEntry of (teen, year of the badge's challenge) exists and has
\* isEligible = (the teen holds exactly 12 PURCHASED/EARNED badges of that year).
C7_EligibilityFreshness ==
  [][\A t \in Teens, b \in BadgeIds :
       StatusOf(teenBadge', t, b) # StatusOf(teenBadge, t, b)
       => LET key == <<t, YearOf(ChallengeOfBadge(b))>>
          IN /\ key \in DOMAIN raffleEntry'
             /\ raffleEntry'[key].isEligible = (OwnedInYear(t, key[2])' = 12)]_vars

\* C8: when updateRaffleEligibilityHelper(teen, year) has completed, the RaffleEntry
\* of (teen, year) has isEligible = TRUE exactly when the teen holds exactly 12
\* PURCHASED/EARNED badges of challenges of that year.
C8_EligibilityThreshold ==
  \A k \in last.raffleCalls :
    /\ k \in DOMAIN raffleEntry
    /\ raffleEntry[k].isEligible = (OwnedInYear(k[1], k[2]) = 12)

\* C8 witness: the helper has flipped the entry to eligible at the 12th badge
C8_Witness ==
  /\ <<"t1", 2025>> \in last.raffleCalls
  /\ raffleEntry[<<"t1", 2025>>].isEligible
  /\ OwnedInYear("t1", 2025) = 12

AllDone == \A p \in Procs : pc[p] = "done"

\* C9: when two concurrent requests on the same (teen, challenge) (submit, review,
\* delete), each followed by its own updateTeenProgressHelper call, have both
\* finished, the Progress row holds the values derived from the final tables.
C9_ConcurrentRecomputeSafe ==
  (/\ AllDone
   /\ \A p \in Procs : local[p].op \in {"submit", "review", "deleteSubmission"}
   /\ \A p \in Procs : local[p].teenId = "t1" /\ local[p].challengeId = 1
   /\ \A p \in Procs : local[p].code \in {200, 201})
  => ProgressIsDerived("t1", 1)

\* C10: of two concurrent purchase requests for the same (teen, badge) at most one
\* is answered as a successful purchase.
C10_NoDoublePurchase ==
  (/\ AllDone
   /\ \A p \in Procs : local[p].op = "purchase"
   /\ \A p, q \in Procs : local[p].teenId = local[q].teenId /\ local[p].badgeId = local[q].badgeId)
  => \E p \in Procs : local[p].code # 200

\* the teen's Progress on the challenge is at 100%
AtHundred(prog, teenId, challengeId) ==
  <<teenId, challengeId>> \in DOMAIN prog /\ prog[<<teenId, challengeId>>].percentage = 100

C12_CompletedAtRetained ==
  [][\A k \in last'.progressCalls :
       (/\ k \in DOMAIN teenProgress
        /\ teenProgress[k].percentage = 100
        /\ teenProgress[k].completedAt # 0
        /\ teenProgress'[k].percentage = 100)
       => teenProgress'[k].completedAt = teenProgress[k].completedAt]_vars

\* C13: calls of updateTeenProgressHelper for the same pair with no write to Tasks
\* or Submissions in between return the same result and leave the same
\* tasksTotal, tasksCompleted and percentage in the Progress row.
C13_RecomputeIdempotent ==
  \A i, j \in 1..Len(returned) :
    returned[i].key = returned[j].key
    => /\ returned[i].result = returned[j].result
       /\ returned[i].row.tasksTotal = returned[j].row.tasksTotal
       /\ returned[i].row.tasksCompleted = returned[j].row.tasksCompleted
       /\ returned[i].row.percentage = returned[j].row.percentage

\* C13 witness: two calls in a row for a half-complete pair (1 of 2 approved)
C13_Witness ==
  /\ Len(returned) >= 2
  /\ returned[1].key = <<"t1", 1>>
  /\ returned[2].key = <<"t1", 1>>
  /\ returned[2].result.completedSubmissions = 1
  /\ returned[2].result.percentage = 50
  /\ returned[2].row = teenProgress[<<"t1", 1>>]

\* C14: in the Progress row that a recomputation has written, completedAt is set
\* exactly when percentage = 100; a recomputation that yields less than 100
\* leaves completedAt null.
C14_CompletedAtIffHundred ==
  \A k \in last.progressCalls :
    /\ k \in DOMAIN teenProgress
    /\ (teenProgress[k].completedAt # 0) <=> (teenProgress[k].percentage = 100)

\* C14 witness: the only task of the challenge was submitted (100%) and the
\* submission was then rejected; the recomputation wrote 0% and a null completedAt
C14_Witness ==
  /\ <<"t1", 1>> \in last.progressCalls
  /\ teenProgress[<<"t1", 1>>].tasksTotal = 1
  /\ teenProgress[<<"t1", 1>>].percentage = 0
  /\ teenProgress[<<"t1", 1>>].completedAt = 0
  /\ \E s \in submission : s.teenId = "t1" /\ s.status = "REJECTED"

\* C15: there is never more than one Submission per (task, teen), and of two
\* concurrent submits for the same pair each one ends by creating the record or
\* updating the existing one (answer 201 or 200).
C15_SubmissionUnique ==
  /\ \A s1, s2 \in submission :
       (s1.taskId = s2.taskId /\ s1.teenId = s2.teenId) => s1 = s2
  /\ (/\ AllDone
      /\ \A p \in Procs : local[p].op = "submit"
      /\ \A p, q \in Procs :
           local[p].taskId = local[q].taskId /\ local[p].teenId = local[q].teenId)
     => \A p \in Procs : local[p].code \in {200, 201}

\* C16: after every successful reviewSubmission the Progress row of the
\* submission's teen and its task's challenge holds the values derived from the
\* tables; rejecting a submission that was APPROVED lowers tasksCompleted by
\* exactly 1 and, when the row stood at 100%, clears completedAt.
C16_ReviewRecomputes ==
  [][\A s \in submission, st \in SubmissionStatus, sc \in ScoreInputs, x \in task :
       (/\ x.id = s.taskId
        /\ reviewSubmission(s, st, sc) \/ reviewSubmissionV1(s, st, sc)
        /\ last'.code = 200)
       => LET key == <<s.teenId, x.challengeId>>
          IN /\ ProgressIsDerived(s.teenId, x.challengeId)'
             /\ (s.status = "APPROVED" /\ st = "REJECTED" /\ key \in DOMAIN teenProgress)
                => /\ teenProgress'[key].tasksCompleted = teenProgress[key].tasksCompleted - 1
                   /\ teenProgress[key].percentage = 100
                      => teenProgress'[key].completedAt = 0]_vars

\* C17: a review with a score below 0 or above task.maxScore is answered 400 and
\* leaves the submissions as they were; a review with a score from 0 to
\* task.maxScore (both ends included) is accepted and the score is stored.
C17_ScoreBound ==
  [][\A s \in submission, st \in SubmissionStatus, sc \in ScoreInputs \ {NoScore} :
       (reviewSubmission(s, st, sc) \/ reviewSubmissionV1(s, st, sc))
       => IF sc[1] < 0 \/ sc[1] > MaxScore
            THEN last'.code = 400 /\ submission' = submission
            ELSE /\ last'.code = 200
                 /\ ScoreOf(submission', s.taskId, s.teenId) = sc]_vars

\* C18: every challenge with isPublished = true has a Badge row, in every state
\* reached by createChallenge, updateChallenge, publishChallenge,
\* toggleChallengeStatus, createBadge and deleteBadge.
C18_PublishedHasBadge ==
  \A c \in DOMAIN monthlyChallenge : monthlyChallenge[c].isPublished => c \in badge

\* C19: a webhook request whose x-paystack-signature is not the HMAC of its
\* payload under the shared secret is answered 401 and writes nothing: no
\* Transaction, TeenBadge or RaffleEntry row is created or changed.
C19_BadSignatureRejected ==
  [][\A r \in Refs, e \in WebhookEvents, sig \in Signatures :
       (sig # <<PAYSTACK_SECRET_KEY, <<e, r>>>> /\ handlePaystackWebhook(r, e, sig))
       => /\ last'.code = 401
          /\ UNCHANGED <<transaction, teenBadge, raffleEntry>>]_vars

\* a charge of the gateway has succeeded, nothing is recorded for it yet, and a
\* webhook request has just been answered 401
C19_Witness ==
  /\ last.code = 401
  /\ \E r \in DOMAIN gateway : gateway[r].status = "success" /\ r \notin DOMAIN transaction

\* C20: after deleteSubmission the deleted submission is gone and the Progress row
\* of its teen and its task's challenge has tasksCompleted equal to the number of
\* the teen's remaining APPROVED submissions in that challenge, with completedAt
\* cleared when the percentage is below 100.
C20_DeleteRecomputes ==
  [][\A s \in submission, x \in task :
       (x.id = s.taskId /\ deleteSubmission(s))
       => LET key == <<s.teenId, x.challengeId>>
          IN /\ s \notin submission'
             /\ key \in DOMAIN teenProgress'
             /\ teenProgress'[key].tasksCompleted = ApprovedOnChallenge(s.teenId, x.challengeId)'
             /\ teenProgress'[key].percentage < 100 => teenProgress'[key].completedAt = 0]_vars

\* a request has just recomputed the Progress of a teen who has no submission left
\* in a challenge that has tasks: the row counts 0 completed and has no completedAt
C20_Witness ==
  \E t \in ActiveTeens, c \in LiveChallenges :
    /\ last.code = 200
    /\ last.progressCalls = {<<t, c>>}
    /\ TasksOfChallenge(c) # {}
    /\ \A s \in submission : s.teenId = t => [id |-> s.taskId, challengeId |-> c] \notin task
    /\ teenProgress[<<t, c>>].tasksCompleted = 0
    /\ teenProgress[<<t, c>>].percentage = 0
    /\ teenProgress[<<t, c>>].completedAt = 0

\* C21: at most one challenge exists per (year, month), also when two
\* createChallenge requests run concurrently; a createChallenge for a month
\* that already has a challenge creates nothing and is answered with an error
\* (400 when the handler saw the challenge, 500 when the database refused the row).
C21_OnePerMonth ==
  [][/\ \A r1, r2 \in challengeRows' : r1.ym = r2.ym => r1 = r2
     /\ \A p \in Procs :
          (pc[p] = "create_write" /\ pc'[p] = "done" /\ HasChallenge(challengeRows, local[p].ym))
          => /\ challengeRows' = challengeRows
             /\ local'[p].code \in {400, 500}
             /\ local[p].existing => local'[p].code = 400]_vars

\* both requests named the same new month, neither saw a challenge for it, and
\* both have finished: one created the challenge and the other was refused
C21_Witness ==
  /\ AllDone
  /\ \A p \in Procs : local[p].op \in CreateOps /\ local[p].ym = <<2026, 1>> /\ ~local[p].existing
  /\ {local[p].code : p \in Procs} = {201, 500}

\* C22: at most one RaffleDraw exists per year; a createRaffleDraw for a year that
\* has a draw is answered 400 and leaves the draws as they were; a draw is created
\* only when the year has an eligible RaffleEntry, and its winner is the teen of
\* one of the eligible entries.
C22_RaffleDrawWriteOnce ==
  [][/\ \A r1, r2 \in raffleDraw' : r1.year = r2.year => r1 = r2
     /\ raffleDraw \subseteq raffleDraw'
     /\ \A year \in DrawYears, random \in 0..1 :
          (createRaffleDraw(year, random) /\ \E r \in raffleDraw : r.year = year)
          => last'.code = 400 /\ raffleDraw' = raffleDraw
     /\ \A r \in raffleDraw' \ raffleDraw :
          /\ <<r.winnerId, r.year>> \in DOMAIN raffleEntry
          /\ raffleEntry[<<r.winnerId, r.year>>].isEligible]_vars

\* a draw of 2025 exists and the request answered last was refused
C22_Witness ==
  /\ \E r \in raffleDraw : r.year = 2025
  /\ last.code = 400

\* C23: a reviewSubmission whose status is missing or is not one of PENDING,
\* APPROVED, REJECTED is answered 400 and leaves the submissions (status and
\* score) and the Progress rows as they were.
C23_BadStatusRejected ==
  [][\A s \in submission, st \in StatusInputs \ {"PENDING", "APPROVED", "REJECTED"},
       sc \in ScoreInputs :
       (reviewSubmission(s, st, sc) \/ reviewSubmissionV1(s, st, sc))
       => /\ last'.code = 400
          /\ UNCHANGED <<submission, teenProgress>>]_vars

\* a review has been refused after an earlier review had set a submission of t1
\* to REJECTED with a score
C23_Witness ==
  /\ last.code = 400
  /\ \E s \in submission : s.teenId = "t1" /\ s.status = "REJECTED" /\ s.score # NoScore

\* C24: a publishChallenge that publishes the challenge sends exactly one
\* response, a success, whether or not the e-mail or the push notification fails.
C24_NotificationNonFatal ==
  [][\A c \in AdminChallenges, emailFails \in BOOLEAN, pushFails \in BOOLEAN :
       (/\ publishChallengeNotify(c, emailFails, pushFails)
           \/ publishChallengeAdminNotify(c, emailFails)
        /\ c \in DOMAIN monthlyChallenge /\ ~monthlyChallenge[c].isPublished
        /\ monthlyChallenge'[c].isPublished)
       => sent' = <<200>>]_vars

C26_ChecklistAccepts ==
  call.fn \in {"utils", "middleware"}
  => ((call.result = NoError)
      <=> /\ call.checkedItems.kind = "array"
          /\ Len(call.checkedItems.elems) > 0
          /\ \A itemId \in Elems(call.checkedItems.elems) : itemId \in {i.id : i \in call.items})

\* C27: for tasksTotal >= 1 and 0 <= tasksCompleted <= tasksTotal,
\* calculateProgress returns 100, and isCompleted is true, if and only if
\* tasksCompleted = tasksTotal.
C27_HundredIffAllApproved ==
  (call.fn = "calculateProgress" /\ call.total >= 1)
  => /\ (call.percentage = 100) <=> (call.completed = call.total)
     /\ call.isCompleted <=> (call.completed = call.total)

\* C28: a handler that calls handleValidationErrors inline stops when the
\* validation fails: the 400 is the only response and no table is written.
C28_InlineValidationStops ==
  [][\A t \in Teens, b \in LiveBadges \cup DirectBadges \cup MissingBadge, c \in AdminChallenges :
       (purchaseBadgeInline(t, b, FALSE) \/ createBadgeRoute(c, FALSE))
       => /\ sent' = <<400>>
          /\ UNCHANGED <<db, monthlyChallenge, badge>>]_vars

\* C29: when a teen resubmits for a task on which their Submission exists, with
\* whatever status, the Submission becomes APPROVED with its score unchanged, and
\* the recomputed Progress row counts it in tasksCompleted.
C29_ResubmitResetsStatus ==
  [][\A t \in ActiveTeens, x \in task, old \in submission :
       (/\ old.teenId = t /\ old.taskId = x.id
        /\ submitTaskResponse(t, x.id, TRUE)
        /\ last'.code = 200)
       => /\ [old EXCEPT !.status = "APPROVED"] \in submission'
          /\ \A s \in submission' : (s.teenId = t /\ s.taskId = x.id) => s.score = old.score
          /\ <<t, x.challengeId>> \in DOMAIN teenProgress'
          /\ teenProgress'[<<t, x.challengeId>>].tasksCompleted
               = ApprovedOnChallenge(t, x.challengeId)']_vars

\* a submission of t1 that carries a reviewer's score is APPROVED: it was sent
\* back with the score and then resubmitted
C29_Witness ==
  /\ last.code = 200
  /\ last.progressCalls # {}
  /\ \E s \in submission :
       s.teenId \in ActiveTeens /\ s.taskId \in LiveTaskIds /\ s.status = "APPROVED" /\ s.score # NoScore

\* C30: there is at most one Transaction per gateway reference, and once the
\* Transaction of a reference has status SUCCESS no delivery of charge.success or
\* charge.failed makes it FAILED or adds a second record: the reference keeps its
\* one Transaction, with status SUCCESS.
C30_SuccessIsFinal ==
  [][\A r \in Refs :
       (r \in DOMAIN transaction /\ transaction[r].status = "SUCCESS")
       => (/\ r \in DOMAIN transaction'
           /\ transaction'[r].status = "SUCCESS"
           /\ DOMAIN transaction' = DOMAIN transaction)]_vars

\* a rightly signed charge.failed was answered for a reference whose Transaction
\* has status SUCCESS
C30_Witness ==
  /\ last = Answer(200, {}, {})
  /\ \E r \in Refs : r \in DOMAIN transaction /\ transaction[r].status = "SUCCESS"
====
